---- MODULE Spec2Model ----
(***************************************************************************)
(* A model of the pipeline execution engine of pyts2:                      *)
(*   pyts2/pipeline/base.py   TSPipeline, ResultRecorder, the step classes *)
(*   pyts2/time.py            TSInstant (the key of the report)            *)
(*   pyts2/commandline.py     the audit, downsize and ingest commands      *)
(***************************************************************************)
EXTENDS Integers, Sequences, FiniteSets, TLC

VARIABLES
    cmd,        \* the caller: "audit", "downsize", "ingest", "process", "process_to"
    ncpus,      \* the ncpus argument of TSPipeline.process
    input,      \* the input stream: a sequence of frames
    pc,         \* the caller's position
    err,        \* the exception the caller is propagating ("" for none)
    steps,      \* TSPipeline.steps
    n,          \* TSPipeline.n
    report,     \* TSPipeline.report, a ResultRecorder: [fields, data]
    gen,        \* state of the generator object returned by TSPipeline.process
    pool,       \* state of the executor of that call
    tasks,      \* the futures of executor.map, one per input frame
    k,          \* index of the next future the generator waits for
    yielded,    \* the frames the generator has yielded so far
    sinkOut,    \* frames written to the output of process_to
    stepOut,    \* frames written by WriteFileStep steps
    stepRec,    \* <<step position, key>> pairs held by the ResultRecorderStep recorders
    finished,   \* the steps (as paths) whose finish() has been called, in call order
    disk,       \* the report file: NoFile or the rows written by the last save
    echoed,     \* the count printed by the command (-1 before it is printed)
    opts,       \* ingest: which of --downsized-output, --audit-output are given
    calls,      \* the record calls made on a recorder used on its own: [instant, report]
    pathArg,    \* the argument of TSInstant.from_path
    parsed      \* the outcome of TSInstant.from_path(pathArg)

vars == <<cmd, ncpus, input, pc, err, steps, n, report, gen, pool, tasks,
          k, yielded, sinkOut, stepOut, stepRec, finished, disk, echoed, opts,
          calls, pathArg, parsed>>

\* what a run of the pipeline leaves alone
lib == <<calls, pathArg, parsed>>

-----------------------------------------------------------------------------
(* Bounds of the model *)

MaxFrames == 2          \* longest input stream
MaxCpus == 2            \* largest ncpus
MaxCalls == 3           \* most calls made on a recorder used on its own

(* Program constants *)

SaveInterval == 1000    \* audit: pipe.n % 1000
DefaultThreads == 5     \* max_workers of ThreadPoolExecutor(): at least 1 cpu + 4
SubCount == 10          \* the count argument of re.sub in save: re.IGNORECASE | re.MULTILINE

-----------------------------------------------------------------------------
(* Ordered mappings (Python dict): a sequence of <<key, value>> pairs with  *)
(* distinct keys, in insertion order.                                       *)

HasKey(d, key) == \E i \in 1..Len(d) : d[i][1] = key

Get(d, key) == d[CHOOSE i \in 1..Len(d) : d[i][1] = key][2]

Put(d, key, val) ==
    IF HasKey(d, key)
    THEN [i \in 1..Len(d) |-> IF d[i][1] = key THEN <<key, val>> ELSE d[i]]
    ELSE Append(d, <<key, val>>)

RECURSIVE DictUpdate(_, _)
DictUpdate(d, other) ==
    IF other = <<>> THEN d
    ELSE DictUpdate(Put(d, Head(other)[1], Head(other)[2]), Tail(other))

-----------------------------------------------------------------------------
(* TSInstant and its string form *)

NoIndex == <<"None">>

Digit(d) == <<"0", "1", "2", "3", "4", "5", "6", "7", "8", "9">>[d + 1]

RECURSIVE Decimal(_)
Decimal(x) == IF x < 10 THEN <<Digit(x)>> ELSE Append(Decimal(x \div 10), Digit(x % 10))

\* f"{x:02d}"
Fmt02d(x) == IF x < 10 THEN <<"0", Digit(x)>> ELSE Decimal(x)

\* datetime.strftime('%Y_%m_%d_%H_%M_%S'); the model's datetimes are the
\* seconds 0..3599 of the hour 2017-01-02 03h.
Strftime(dt) ==
    <<"2", "0", "1", "7", "_", "0", "1", "_", "0", "2", "_", "0", "3", "_">>
        \o Fmt02d(dt \div 60) \o <<"_">> \o Fmt02d(dt % 60)

\* TSInstant.__str__ / __repr__
Repr(instant) ==
    LET idx == IF instant.index = NoIndex THEN <<>> ELSE <<"_">> \o instant.index
        subsec == <<"_">> \o Fmt02d(instant.subsecond)
    IN  Strftime(instant.datetime) \o subsec \o idx

-----------------------------------------------------------------------------
(* Frames (TimestreamFile, an external type): filename, instant, report,   *)
(* content.  None is Python's None.                                         *)

NoInstant == [datetime |-> 0, subsecond |-> 0, index |-> NoIndex]

None == [filename |-> 0, instant |-> NoInstant, report |-> <<>>, content |-> <<>>]

IsNone(file) == file.filename = 0

InstantA == [datetime |-> 5, subsecond |-> 0, index |-> NoIndex]

InstantB == [datetime |-> 65, subsecond |-> 0, index |-> <<"c", "1">>]

Frame(i, instant, rep, content) ==
    [filename |-> i, instant |-> instant, report |-> rep, content |-> content]

\* the frames an input stream is made of: a decodable image of two bytes
\* that comes with a report field, a decodable one with an empty report,
\* and a corrupt image of one byte at the instant of the first
FrameChoices ==
    { <<InstantA, << <<"Cam", [type |-> "str", v |-> <<"a">>]>> >>, <<1, 1>> >>,
      <<InstantB, <<>>, <<1, 1>> >>,
      <<InstantA, << <<"Cam", [type |-> "str", v |-> <<"b">>]>> >>, <<0>> >> }

Inputs ==
    UNION { { [i \in 1..len |-> Frame(i, c[i][1], c[i][2], c[i][3])] :
                c \in [1..len -> FrameChoices] } :
            len \in 0..MaxFrames }

-----------------------------------------------------------------------------
(* Report values: a string or a number, kept with its type *)

StrVal(chars) == [type |-> "str", v |-> chars]

IntVal(x) == [type |-> "int", v |-> Decimal(x)]

\* str(exc): the exception's message
ExcStr(exc) == StrVal(<<exc>>)

\* os.path.basename(file.filename)
Basename(filename) == StrVal(<<"f", Digit(filename)>>)

-----------------------------------------------------------------------------
(* ResultRecorder: fields is the list of known field names, data maps the  *)
(* instant's string to the record of that instant.                          *)

NewRecorder == [fields |-> <<>>, data |-> <<>>]

InSeq(x, seq) == \E i \in 1..Len(seq) : seq[i] = x

Range(seq) == {seq[i] : i \in 1..Len(seq)}

\* a loop body that appends the name whether or not it is known
RecordItemDup(rec, key, kwargs, i) ==
    LET old == IF HasKey(rec.data, key) THEN Get(rec.data, key) ELSE <<>>
    IN  [fields |-> Append(rec.fields, kwargs[i][1]),
         data |-> Put(rec.data, key, DictUpdate(old, kwargs))]

\* the body of the loop of ResultRecorder.record, for the i-th item of kwargs
RecordItem(rec, key, kwargs, i) ==
    LET name == kwargs[i][1]
        flds == IF InSeq(name, rec.fields) THEN rec.fields ELSE Append(rec.fields, name)
        old == IF HasKey(rec.data, key) THEN Get(rec.data, key) ELSE <<>>
    IN  [fields |-> flds, data |-> Put(rec.data, key, DictUpdate(old, kwargs))]

RECURSIVE RecordLoop(_, _, _, _)
RecordLoop(rec, key, kwargs, i) ==
    IF i > Len(kwargs) THEN rec
    ELSE RecordLoop(RecordItem(rec, key, kwargs, i), key, kwargs, i + 1)

\* ResultRecorder.record(instant, **kwargs)
Record(rec, instant, kwargs) == RecordLoop(rec, Repr(instant), kwargs, 1)

-----------------------------------------------------------------------------
(* Steps.  A step is [kind, sub]; sub holds the steps of a nested pipeline. *)
(*   "Copy"      PipelineStep / CopyStep                                    *)
(*   "WriteFile" WriteFileStep                                              *)
(*   "FileStats" FileStatsStep                                              *)
(*   "Recorder"  ResultRecorderStep                                         *)
(*   "Pipe"      a TSPipeline used as a step                                *)
(*   "Ext"       a step of the image collaborators (decode, analyse ...):   *)
(*               raises on a corrupt image, else annotates the report       *)
(*   "NoProc"    an object with neither process_file nor finish             *)
(*   "NoFinish"  an object with process_file (identity) and no finish       *)

Step(kind) == [kind |-> kind, sub |-> <<>>]

Pipe(sub) == [kind |-> "Pipe", sub |-> sub]

Corrupt(file) == file.content[1] = 0

\* result of a call: the returned frame, the exception raised ("" for none),
\* what the call did to the outside (frames written, records made), and
\* whether an exception was raised in it, caught or not
Returns(file) ==
    [file |-> file, exc |-> "", out |-> <<>>, recs |-> <<>>, failed |-> FALSE]

Raises(file, exc) ==
    [file |-> file, exc |-> exc, out |-> <<>>, recs |-> <<>>, failed |-> TRUE]

\* WriteFileStep.process_file
WriteFileStep(file) ==
    IF IsNone(file) THEN Raises(file, "AttributeError")
    ELSE [Returns(file) EXCEPT !.out = <<file>>]

\* FileStatsStep.process_file
FileStatsStep(file) ==
    IF IsNone(file) THEN Raises(file, "AttributeError")
    ELSE Returns([file EXCEPT !.report =
            DictUpdate(@, << <<"FileName", Basename(file.filename)>>,
                             <<"FileSize", IntVal(Len(file.content))>> >>)])

\* ResultRecorderStep.process_file: records, and returns nothing
ResultRecorderStep(path, file) ==
    IF IsNone(file) THEN Raises(file, "AttributeError")
    ELSE [Returns(None) EXCEPT !.recs = << <<path, Repr(file.instant)>> >>]

\* a step of the image collaborators
ExtStep(file) ==
    IF IsNone(file) THEN Raises(file, "AttributeError")
    ELSE IF Corrupt(file) THEN Raises(file, "DecodeError")
    ELSE Returns([file EXCEPT !.report = Put(@, "Ext", StrVal(<<"x">>))])

\* the except clause of TSPipeline.process_file: file is the frame the
\* failing step was given
Handler(file, exc) ==
    IF IsNone(file) THEN Raises(file, "AttributeError")
    ELSE Returns([file EXCEPT !.report = Put(@, "Errors", ExcStr(exc))])

RECURSIVE ApplyStep(_, _, _), ProcessFileFrom(_, _, _, _)

\* step.process_file(file), for the step at `path`
ApplyStep(step, path, file) ==
    CASE step.kind = "Copy" -> Returns(file)
      [] step.kind = "NoFinish" -> Returns(file)
      [] step.kind = "NoProc" -> Raises(file, "AttributeError")
      [] step.kind = "WriteFile" -> WriteFileStep(file)
      [] step.kind = "FileStats" -> FileStatsStep(file)
      [] step.kind = "Recorder" -> ResultRecorderStep(path, file)
      [] step.kind = "Ext" -> ExtStep(file)
      [] step.kind = "Pipe" -> ProcessFileFrom(step.sub, path, 1, Returns(file))

\* one iteration of the loop of TSPipeline.process_file: the try and the
\* except.  returned: the loop ends here (the return of the except clause,
\* or the exception that escapes it)
Iteration(step, path, file) ==
    LET r == ApplyStep(step, path, file)
        h == Handler(file, r.exc)
    IN  IF r.exc = ""
        THEN [file |-> r.file, exc |-> "", out |-> r.out, recs |-> r.recs,
              returned |-> FALSE, failed |-> r.failed]
        ELSE [file |-> h.file, exc |-> h.exc, out |-> r.out, recs |-> r.recs,
              returned |-> TRUE, failed |-> TRUE]

\* TSPipeline.process_file from its i-th step on, acc being the result so far
ProcessFileFrom(chain, path, i, acc) ==
    IF i > Len(chain) THEN acc
    ELSE LET it == Iteration(chain[i], Append(path, i), acc.file)
             nxt == [file |-> it.file, exc |-> it.exc,
                     out |-> acc.out \o it.out, recs |-> acc.recs \o it.recs,
                     failed |-> acc.failed \/ it.failed]
         IN  IF it.returned THEN nxt ELSE ProcessFileFrom(chain, path, i + 1, nxt)

\* TSPipeline.process_file
ProcessFile(chain, file) == ProcessFileFrom(chain, <<>>, 1, Returns(file))

\* the calls of step.process_file that TSPipeline.process_file makes for a
\* frame, nested ones included, in the order they are made, from the i-th
\* step on: the path of the step, and whether the call raised
RECURSIVE Applied(_, _, _, _)
Applied(chain, path, i, file) ==
    IF i > Len(chain) THEN <<>>
    ELSE LET p == Append(path, i)
             it == Iteration(chain[i], p, file)
             inner == IF chain[i].kind = "Pipe"
                      THEN Applied(chain[i].sub, p, 1, file) ELSE <<>>
         IN  << [path |-> p, raised |-> ApplyStep(chain[i], p, file).exc # ""] >>
                \o inner
                \o (IF it.returned THEN <<>> ELSE Applied(chain, path, i + 1, it.file))

-----------------------------------------------------------------------------
(* finish *)

HasFinish(step) == step.kind \notin {"NoProc", "NoFinish"}

RECURSIVE FinishFrom(_, _, _, _)

\* TSPipeline.finish from its i-th step on; acc is [calls, exc]: the finish
\* calls made so far and the exception that ended them
FinishFrom(chain, path, i, acc) ==
    IF i > Len(chain) \/ acc.exc # "" THEN acc
    ELSE LET p == Append(path, i)
             called == [acc EXCEPT !.calls = Append(@, p)]
         IN  IF ~HasFinish(chain[i])
             THEN [acc EXCEPT !.exc = "AttributeError"]
             ELSE IF chain[i].kind = "Pipe"
             THEN FinishFrom(chain, path, i + 1, FinishFrom(chain[i].sub, p, 1, called))
             ELSE FinishFrom(chain, path, i + 1, called)

\* TSPipeline.finish
Finish(chain) == FinishFrom(chain, <<>>, 1, [calls |-> <<>>, exc |-> ""])

-----------------------------------------------------------------------------
(* ResultRecorder.save *)

NoFile == << <<"no file">> >>

\* code points of the characters the model's strings are made of
Ord(c) ==
    CASE c = "\t" -> 9 [] c = "\n" -> 10 [] c = " " -> 32
      [] c = "0" -> 48 [] c = "1" -> 49 [] c = "2" -> 50 [] c = "3" -> 51
      [] c = "4" -> 52 [] c = "5" -> 53 [] c = "6" -> 54 [] c = "7" -> 55
      [] c = "8" -> 56 [] c = "9" -> 57 [] c = "_" -> 95
      [] c = "a" -> 97 [] c = "b" -> 98 [] c = "c" -> 99 [] c = "f" -> 102
      [] c = "x" -> 120 [] c = "A" -> 65 [] c = "N" -> 78

\* a < b for Python strings
RECURSIVE StrLess(_, _)
StrLess(a, b) ==
    IF b = <<>> THEN FALSE
    ELSE IF a = <<>> THEN TRUE
    ELSE IF Head(a) = Head(b) THEN StrLess(Tail(a), Tail(b))
    ELSE Ord(Head(a)) < Ord(Head(b))

\* sorted(self.data.items()): the keys are distinct, so the key decides
RECURSIVE Sorted(_)
Sorted(d) ==
    IF d = <<>> THEN <<>>
    ELSE LET m == CHOOSE i \in 1..Len(d) :
                    \A j \in 1..Len(d) : j = i \/ StrLess(d[i][1], d[j][1])
         IN  <<d[m]>> \o Sorted([j \in 1..(Len(d) - 1) |-> IF j < m THEN d[j] ELSE d[j + 1]])

IsSpace(c) == c \in {" ", "\t", "\n"}

RECURSIVE DropSpace(_)
DropSpace(chars) ==
    IF chars # <<>> /\ IsSpace(Head(chars)) THEN DropSpace(Tail(chars)) ELSE chars

\* re.sub(r"\s+", " ", chars, count)
RECURSIVE ReSub(_, _)
ReSub(chars, count) ==
    IF chars = <<>> \/ count = 0 THEN chars
    ELSE IF IsSpace(Head(chars)) THEN <<" ">> \o ReSub(DropSpace(chars), count - 1)
    ELSE <<Head(chars)>> \o ReSub(Tail(chars), count)

\* the cell of one field of one record
Cell(record, field) ==
    LET val == IF HasKey(record, field) THEN Get(record, field) ELSE StrVal(<<"N", "A">>)
    IN  IF val.type = "str" THEN StrVal(ReSub(val.v, SubCount)) ELSE val

\* the lines save writes: the header and one row per record
Rows(rec) ==
    LET items == Sorted(rec.data)
    IN  << <<"Instant">> \o rec.fields >> \o
        [i \in 1..Len(items) |->
            <<items[i][1]>> \o [f \in 1..Len(rec.fields) |-> Cell(items[i][2], rec.fields[f])]]

\* a save with no early return
SaveAlways(rec, old) == Rows(rec)

\* ResultRecorder.save(outpath): the file after the call, old being the file before
Save(rec, old) == IF Len(rec.data) < 1 THEN old ELSE Rows(rec)

-----------------------------------------------------------------------------
(* The callers *)

Commands == {"audit", "downsize", "ingest"}

Library == {"process", "process_to"}

\* the step lists a caller of the library builds, each through the
\* constructor, add_step, or both
LibraryChains ==
    { <<Step("Copy")>>,
      <<Step("Ext"), Step("FileStats")>>,
      <<Step("WriteFile"), Step("Ext")>>,
      <<Step("Recorder"), Step("FileStats")>>,
      <<Step("Recorder"), Step("Copy")>>,
      <<Pipe(<<Step("Ext"), Step("WriteFile")>>), Step("FileStats")>>,
      <<Step("NoProc"), Step("Copy")>>,
      <<Step("NoFinish"), Step("Copy")>> }

\* the lists on the way to one of them
Chains == UNION { {SubSeq(c, 1, len) : len \in 0..Len(c)} : c \in LibraryChains }

\* the steps they are made of
StepChoices == UNION { {c[i] : i \in 1..Len(c)} : c \in LibraryChains }

\* the steps audit builds
AuditSteps == <<Step("FileStats"), Step("Ext"), Step("Ext"), Step("Ext")>>

\* the steps downsize builds
DownsizeSteps == <<Step("Ext"), Step("Ext"), Step("Ext")>>

\* the steps ingest builds
IngestSteps(o) ==
    <<Step("WriteFile")>>
    \o (IF o # {} THEN <<Step("Ext")>> ELSE <<>>)
    \o (IF "downsized" \in o
        THEN <<Pipe(<<Step("Ext"), Step("Ext"), Step("WriteFile")>>)>> ELSE <<>>)
    \o (IF "audit" \in o
        THEN <<Pipe(<<Step("FileStats"), Step("Ext"), Step("Ext")>>)>> ELSE <<>>)

\* from_path has not been called
NotCalled == [exc |-> "", instant |-> NoInstant, called |-> FALSE]

Init ==
    /\ cmd \in Commands \cup Library
    /\ ncpus \in 1..MaxCpus
    /\ input \in Inputs
    /\ opts \in IF cmd = "ingest" THEN SUBSET {"downsized", "audit"} ELSE {{}}
    /\ pc = "new"
    /\ err = ""
    /\ steps = <<>>
    /\ n = 0
    /\ report = NewRecorder
    /\ gen = "none"
    /\ pool = "none"
    /\ tasks = <<>>
    /\ k = 0
    /\ yielded = <<>>
    /\ sinkOut = <<>>
    /\ stepOut = <<>>
    /\ stepRec = {}
    /\ finished = <<>>
    /\ disk = NoFile
    /\ echoed = -1
    /\ calls = <<>>
    /\ pathArg = <<>>
    /\ parsed = NotCalled

\* TSPipeline.__init__(*args)
NewPipeline(args) == [steps |-> args, n |-> 0, report |-> NewRecorder]

\* the steps the command hands to the constructor
CommandSteps ==
    CASE cmd = "audit" -> AuditSteps
      [] cmd = "downsize" -> DownsizeSteps
      [] cmd = "ingest" -> IngestSteps(opts)
      [] OTHER -> <<>>

\* pipe = TSPipeline(*args)
Construct(args) ==
    /\ pc = "new"
    /\ steps' = NewPipeline(args).steps
    /\ n' = NewPipeline(args).n
    /\ report' = NewPipeline(args).report
    /\ pc' = "setup"
    /\ UNCHANGED lib
    /\ UNCHANGED <<cmd, ncpus, input, err, gen, pool, tasks, k, yielded, sinkOut,
                   stepOut, stepRec, finished, disk, echoed, opts>>

\* hasattr(step, "process_file")
HasProcessFile(step) == step.kind # "NoProc"

\* TSPipeline.add_step(step): the step list after the call and the outcome
AddStepResult(chain, step) ==
    IF ~HasProcessFile(step) THEN [steps |-> chain, outcome |-> "ValueError"]
    ELSE [steps |-> Append(chain, step), outcome |-> "ok"]

\* a caller of the library calls pipe.add_step(step); the ValueError ends it
AddStep(step) ==
    /\ pc = "setup"
    /\ cmd \in Library
    /\ ~HasProcessFile(step) \/ Append(steps, step) \in Chains
    /\ steps' = AddStepResult(steps, step).steps
    /\ err' = IF AddStepResult(steps, step).outcome = "ok" THEN err ELSE "ValueError"
    /\ pc' = IF AddStepResult(steps, step).outcome = "ok" THEN pc ELSE "aborted"
    /\ UNCHANGED lib
    /\ UNCHANGED <<cmd, ncpus, input, n, report, gen, pool, tasks, k, yielded,
                   sinkOut, stepOut, stepRec, finished, disk, echoed, opts>>

\* pipe.process(ints, ncpus=threads) is called: a generator, nothing runs yet
Call ==
    /\ pc = "setup"
    /\ pc' = "loop"
    /\ gen' = "created"
    /\ UNCHANGED lib
    /\ UNCHANGED <<cmd, ncpus, input, err, steps, n, report, pool, tasks, k,
                   yielded, sinkOut, stepOut, stepRec, finished, disk, echoed, opts>>

-----------------------------------------------------------------------------
(* TSPipeline.process: the generator, the executor and its workers *)

\* max_workers of the executor process creates
PoolSize == IF ncpus > 1 THEN ncpus ELSE DefaultThreads

\* the workers of a ProcessPoolExecutor work on copies of the pipeline
SharedMemory == ~(ncpus > 1)

Running == {i \in 1..Len(tasks) : tasks[i].st = "running"}

\* executor.map(self.process_file, input_stream): one future per frame
Submit(frames) ==
    [i \in 1..Len(frames) |->
        [st |-> "queued", pos |-> 1, file |-> frames[i], exc |-> "", inrec |-> FALSE,
         caught |-> FALSE, failed |-> FALSE]]

\* the block left with no shutdown of the executor
ExecutorExitNoShutdown(ts) == [pool |-> "up", tasks |-> ts]

\* leaving the `with executor` block with the result iterator dropped:
\* the futures not yet started are cancelled, the running ones are awaited
ExecutorExit(ts) ==
    [pool |-> "closing",
     tasks |-> [i \in 1..Len(ts) |->
                  IF ts[i].st = "queued" THEN [ts[i] EXCEPT !.st = "cancelled"] ELSE ts[i]]]

\* the first next() on the generator: the executor is created and every
\* frame of the input is submitted
Start ==
    /\ pc = "loop"
    /\ gen = "created"
    /\ gen' = "pulling"
    /\ pool' = "up"
    /\ tasks' = Submit(input)
    /\ k' = 1
    /\ UNCHANGED lib
    /\ UNCHANGED <<cmd, ncpus, input, pc, err, steps, n, report, yielded,
                   sinkOut, stepOut, stepRec, finished, disk, echoed, opts>>

\* a worker takes a future from the queue and calls process_file
WorkerStart(i) ==
    /\ pool = "up"
    /\ i \in 1..Len(tasks)
    /\ tasks[i].st = "queued"
    /\ Cardinality(Running) < PoolSize
    /\ tasks' = [tasks EXCEPT ![i].st = IF Len(steps) = 0 THEN "done" ELSE "running"]
    /\ UNCHANGED lib
    /\ UNCHANGED <<cmd, ncpus, input, pc, err, steps, n, report, gen, pool, k,
                   yielded, sinkOut, stepOut, stepRec, finished, disk, echoed, opts>>

\* the task after one iteration of the loop of process_file
AfterIteration(task, it) ==
    [st |-> IF it.returned \/ task.pos + 1 > Len(steps) THEN "done" ELSE "running",
     pos |-> IF it.returned THEN task.pos ELSE task.pos + 1,
     file |-> it.file,
     exc |-> it.exc,
     inrec |-> FALSE,
     caught |-> it.returned,
     failed |-> task.failed \/ it.failed]

\* a step that touches nothing but the frame it is given
RECURSIVE IsLocal(_)
IsLocal(step) ==
    /\ step.kind \notin {"WriteFile", "Recorder"}
    /\ \A j \in 1..Len(step.sub) : IsLocal(step.sub[j])

\* process_file continued at the task's position: the iteration there and
\* the iterations after it that touch nothing but the frame; eff collects
\* what they write and record
RECURSIVE RunFrom(_, _)
RunFrom(task, eff) ==
    LET it == Iteration(steps[task.pos], <<task.pos>>, task.file)
        after == AfterIteration(task, it)
        sofar == [out |-> eff.out \o it.out, recs |-> eff.recs \o it.recs]
    IN  IF after.st = "running" /\ IsLocal(steps[after.pos])
        THEN RunFrom(after, sofar)
        ELSE [task |-> after, out |-> sofar.out, recs |-> sofar.recs]

\* the worker is about to call record in ResultRecorderStep.process_file
AtRecord(task) ==
    /\ task.st = "running"
    /\ steps[task.pos].kind = "Recorder"
    /\ ~IsNone(task.file)
    /\ ~task.inrec

\* a worker enters self.report.record of a ResultRecorderStep
WorkerEnterRecord(i) ==
    /\ i \in 1..Len(tasks)
    /\ AtRecord(tasks[i])
    /\ tasks' = [tasks EXCEPT ![i].inrec = TRUE]
    /\ UNCHANGED lib
    /\ UNCHANGED <<cmd, ncpus, input, pc, err, steps, n, report, gen, pool, k, yielded,
                   sinkOut, stepOut, stepRec, finished, disk, echoed, opts>>

\* a worker goes on with process_file on its frame, up to the next step
\* that writes or records
WorkerStep(i) ==
    /\ i \in 1..Len(tasks)
    /\ tasks[i].st = "running"
    /\ ~AtRecord(tasks[i])
    /\ tasks' = [tasks EXCEPT ![i] = RunFrom(tasks[i], [out |-> <<>>, recs |-> <<>>]).task]
    /\ stepOut' = stepOut \o RunFrom(tasks[i], [out |-> <<>>, recs |-> <<>>]).out
    /\ stepRec' = stepRec \cup
            {r \in Range(RunFrom(tasks[i], [out |-> <<>>, recs |-> <<>>]).recs) : SharedMemory}
    /\ UNCHANGED lib
    /\ UNCHANGED <<cmd, ncpus, input, pc, err, steps, n, report, gen, pool, k, yielded,
                   sinkOut, finished, disk, echoed, opts>>

\* a loop body that keeps the record an instant already has
AccountKeepFirst(rec, count, file) ==
    [report |-> IF HasKey(rec.data, Repr(file.instant)) THEN rec
                ELSE Record(rec, file.instant, file.report),
     n |-> count + 1]

\* the body of the loop of process for a frame that is not None:
\* the recorder and the counter after it
Account(rec, count, file) ==
    [report |-> Record(rec, file.instant, file.report), n |-> count + 1]

\* the generator gets the result of the next future of executor.map, in
\* input order, and it is an exception: it leaves the generator
FetchException ==
    /\ gen = "pulling"
    /\ k <= Len(tasks)
    /\ tasks[k].st = "done"
    /\ tasks[k].exc # ""
    /\ gen' = "raising"
    /\ err' = tasks[k].exc
    /\ pool' = ExecutorExit(tasks).pool
    /\ tasks' = ExecutorExit(tasks).tasks
    /\ UNCHANGED lib
    /\ UNCHANGED <<cmd, ncpus, input, pc, steps, n, report, k, yielded, sinkOut, stepOut,
                   stepRec, finished, disk, echoed, opts>>

\* the next result is None: it is skipped
FetchNone ==
    /\ gen = "pulling"
    /\ k <= Len(tasks)
    /\ tasks[k].st = "done"
    /\ tasks[k].exc = ""
    /\ IsNone(tasks[k].file)
    /\ k' = k + 1
    /\ UNCHANGED lib
    /\ UNCHANGED <<cmd, ncpus, input, pc, err, steps, n, report, gen, pool, tasks, yielded,
                   sinkOut, stepOut, stepRec, finished, disk, echoed, opts>>

\* the next result is a frame: it is recorded, counted and yielded
FetchFrame ==
    /\ gen = "pulling"
    /\ k <= Len(tasks)
    /\ tasks[k].st = "done"
    /\ tasks[k].exc = ""
    /\ ~IsNone(tasks[k].file)
    /\ report' = Account(report, n, tasks[k].file).report
    /\ n' = Account(report, n, tasks[k].file).n
    /\ yielded' = Append(yielded, tasks[k].file)
    /\ gen' = "yielded"
    /\ k' = k + 1
    /\ UNCHANGED lib
    /\ UNCHANGED <<cmd, ncpus, input, pc, err, steps, pool, tasks, sinkOut, stepOut,
                   stepRec, finished, disk, echoed, opts>>

\* the results are exhausted: the with block is left, the generator ends
\* and the caller's loop with it
Exhaust ==
    /\ gen = "pulling"
    /\ k > Len(tasks)
    /\ Running = {}
    /\ pool' = "down"
    /\ gen' = "done"
    /\ pc' = "final"
    /\ UNCHANGED lib
    /\ UNCHANGED <<cmd, ncpus, input, err, steps, n, report, tasks, k, yielded,
                   sinkOut, stepOut, stepRec, finished, disk, echoed, opts>>

\* shutdown(wait=True) returns once no worker runs: the exception reaches
\* the caller, or the closed generator is gone
Shutdown ==
    /\ pool = "closing"
    /\ Running = {}
    /\ pool' = "down"
    /\ gen' = IF gen = "raising" THEN "raised" ELSE "closed"
    /\ pc' = IF gen = "raising" THEN "final" ELSE pc
    /\ UNCHANGED lib
    /\ UNCHANGED <<cmd, ncpus, input, err, steps, n, report, tasks, k, yielded,
                   sinkOut, stepOut, stepRec, finished, disk, echoed, opts>>

Last(seq) == seq[Len(seq)]

\* a loop body that drops the frame
ProcessToBodySkip(out, done) == out

\* the body of the loop of process_to: output.write(done)
ProcessToBody(out, done) == Append(out, done)

\* the body of the caller's loop for the frame just yielded, then next()
Consume ==
    /\ pc = "loop"
    /\ gen = "yielded"
    /\ gen' = "pulling"
    /\ disk' = IF cmd = "audit" /\ n % SaveInterval = 0 THEN Save(report, disk) ELSE disk
    /\ sinkOut' = IF cmd \in {"downsize", "process_to"}
                  THEN ProcessToBody(sinkOut, Last(yielded)) ELSE sinkOut
    /\ UNCHANGED lib
    /\ UNCHANGED <<cmd, ncpus, input, pc, err, steps, n, report, pool, tasks, k,
                   yielded, stepOut, stepRec, finished, echoed, opts>>

\* output.write(done) raises in process_to: the loop is left with the
\* generator suspended at its yield
BodyRaises ==
    /\ pc = "loop"
    /\ gen = "yielded"
    /\ cmd \in {"downsize", "process_to"}
    /\ err' = "IOError"
    /\ pc' = "final"
    /\ UNCHANGED lib
    /\ UNCHANGED <<cmd, ncpus, input, steps, n, report, gen, pool, tasks, k,
                   yielded, sinkOut, stepOut, stepRec, finished, disk, echoed, opts>>

\* a caller of process stops iterating before the end
Break ==
    /\ pc = "loop"
    /\ gen = "yielded"
    /\ cmd = "process"
    /\ pc' = "final"
    /\ UNCHANGED lib
    /\ UNCHANGED <<cmd, ncpus, input, err, steps, n, report, gen, pool, tasks, k,
                   yielded, sinkOut, stepOut, stepRec, finished, disk, echoed, opts>>

\* the suspended generator is closed once its consumer has left the loop:
\* GeneratorExit at the yield leaves the with block
GenClose ==
    /\ pc # "loop"
    /\ gen = "yielded"
    /\ gen' = "closing"
    /\ pool' = ExecutorExit(tasks).pool
    /\ tasks' = ExecutorExit(tasks).tasks
    /\ UNCHANGED lib
    /\ UNCHANGED <<cmd, ncpus, input, pc, err, steps, n, report, k, yielded,
                   sinkOut, stepOut, stepRec, finished, disk, echoed, opts>>

\* the finally clause of audit: save, and the count
FinallyAudit ==
    /\ pc = "final"
    /\ cmd = "audit"
    /\ pc' = "exit"
    /\ disk' = Save(report, disk)
    /\ echoed' = n
    /\ UNCHANGED lib
    /\ UNCHANGED <<cmd, ncpus, input, err, steps, n, report, gen, pool, tasks, k, yielded,
                   sinkOut, stepOut, stepRec, finished, opts>>

\* the finally clause of downsize: the count
FinallyDownsize ==
    /\ pc = "final"
    /\ cmd = "downsize"
    /\ pc' = "exit"
    /\ echoed' = n
    /\ UNCHANGED lib
    /\ UNCHANGED <<cmd, ncpus, input, err, steps, n, report, gen, pool, tasks, k, yielded,
                   sinkOut, stepOut, stepRec, finished, disk, opts>>

\* the finally clause of ingest: finish, save if --audit-output, the count
FinallyIngest ==
    /\ pc = "final"
    /\ cmd = "ingest"
    /\ pc' = "exit"
    /\ finished' = finished \o Finish(steps).calls
    /\ err' = IF Finish(steps).exc # "" THEN Finish(steps).exc ELSE err
    /\ disk' = IF Finish(steps).exc = "" /\ "audit" \in opts THEN Save(report, disk) ELSE disk
    /\ echoed' = IF Finish(steps).exc = "" THEN n ELSE echoed
    /\ UNCHANGED lib
    /\ UNCHANGED <<cmd, ncpus, input, steps, n, report, gen, pool, tasks, k, yielded,
                   sinkOut, stepOut, stepRec, opts>>

\* a caller of the library calls pipe.finish() after its loop
CallFinish ==
    /\ pc = "final"
    /\ cmd \in Library
    /\ pc' = "exit"
    /\ finished' = finished \o Finish(steps).calls
    /\ err' = IF Finish(steps).exc # "" THEN Finish(steps).exc ELSE err
    /\ UNCHANGED lib
    /\ UNCHANGED <<cmd, ncpus, input, steps, n, report, gen, pool, tasks, k,
                   yielded, sinkOut, stepOut, stepRec, disk, echoed, opts>>

Next ==
    \/ cmd \in Commands /\ Construct(CommandSteps)
    \/ cmd \in Library /\ \E args \in Chains : Construct(args)
    \/ \E step \in StepChoices : AddStep(step)
    \/ Call
    \/ Start
    \/ \E i \in 1..MaxFrames : WorkerStart(i)
    \/ \E i \in 1..MaxFrames : WorkerEnterRecord(i)
    \/ \E i \in 1..MaxFrames : WorkerStep(i)
    \/ FetchException
    \/ FetchNone
    \/ FetchFrame
    \/ Exhaust
    \/ Shutdown
    \/ Consume
    \/ BodyRaises
    \/ Break
    \/ GenClose
    \/ FinallyAudit
    \/ FinallyDownsize
    \/ FinallyIngest
    \/ CallFinish

Spec == Init /\ [][Next]_vars



-----------------------------------------------------------------------------
(* A ResultRecorder used on its own: any sequence of record and save calls *)

Instant99 == [datetime |-> 5, subsecond |-> 99, index |-> NoIndex]

Instant100 == [datetime |-> 5, subsecond |-> 100, index |-> NoIndex]

\* the instants record is called with
RecInstants == {Instant99, Instant100, InstantB}

\* a string with eleven runs of whitespace
ElevenRuns ==
    <<"x", "\t", "x", "\t", "x", "\t", "x", "\t", "x", "\t", "x", "\t",
      "x", "\t", "x", "\t", "x", "\t", "x", "\t", "x", "\t", "x">>

\* the keyword arguments record is called with
RecKwargs ==
    { <<>>,
      << <<"Cam", StrVal(<<"a">>)>> >>,
      << <<"Cam", StrVal(<<"b">>)>>, <<"Note", StrVal(<<"x", " ", " ", "y">>)>> >>,
      << <<"Note", StrVal(ElevenRuns)>> >> }

\* a file that is at the target path before the first save
OldFile == << <<"old">> >>

RecorderInit ==
    /\ cmd = "recorder"
    /\ ncpus = 1
    /\ input = <<>>
    /\ opts = {}
    /\ pc = "new"
    /\ err = ""
    /\ steps = <<>>
    /\ n = 0
    /\ report = NewRecorder
    /\ gen = "none"
    /\ pool = "none"
    /\ tasks = <<>>
    /\ k = 0
    /\ yielded = <<>>
    /\ sinkOut = <<>>
    /\ stepOut = <<>>
    /\ stepRec = {}
    /\ finished = <<>>
    /\ disk \in {NoFile, OldFile}
    /\ echoed = -1
    /\ calls = <<>>
    /\ pathArg = <<>>
    /\ parsed = NotCalled

\* recorder.record(instant, **kwargs)
RecordCall(instant, kwargs) ==
    /\ cmd = "recorder"
    /\ Len(calls) < MaxCalls
    /\ report' = Record(report, instant, kwargs)
    /\ calls' = Append(calls, [op |-> "record", instant |-> instant, report |-> kwargs])
    /\ UNCHANGED <<cmd, ncpus, input, pc, err, steps, n, gen, pool, tasks, k, yielded,
                   sinkOut, stepOut, stepRec, finished, disk, echoed, opts, pathArg, parsed>>

\* recorder.save(outpath)
SaveCall ==
    /\ cmd = "recorder"
    /\ Len(calls) < MaxCalls
    /\ disk' = Save(report, disk)
    /\ calls' = Append(calls, [op |-> "save", instant |-> NoInstant, report |-> <<>>])
    /\ UNCHANGED <<cmd, ncpus, input, pc, err, steps, n, report, gen, pool, tasks, k,
                   yielded, sinkOut, stepOut, stepRec, finished, echoed, opts, pathArg,
                   parsed>>

RecorderNext ==
    \/ \E instant \in RecInstants, kwargs \in RecKwargs : RecordCall(instant, kwargs)
    \/ SaveCall

RecorderSpec == RecorderInit /\ [][RecorderNext]_vars

-----------------------------------------------------------------------------
(* TSInstant.from_path.  A path is a sequence of characters; the datetime  *)
(* of an instant made by from_path is <<year, month, day, hour, minute,    *)
(* second>>.                                                               *)

Digits == {"0", "1", "2", "3", "4", "5", "6", "7", "8", "9"}

\* \w, over the characters the model's paths are made of
WordChars == Digits \cup {"_", "a", "c", "d", "g", "j", "p", "x"}

DigitVal(c) == CHOOSE d \in 0..9 : Digit(d) = c

\* int(chars), chars being decimal digits
RECURSIVE ToInt(_)
ToInt(chars) ==
    IF chars = <<>> THEN 0
    ELSE 10 * ToInt(SubSeq(chars, 1, Len(chars) - 1)) + DigitVal(chars[Len(chars)])

\* chars.lstrip("_")
RECURSIVE LStrip(_)
LStrip(chars) ==
    IF chars # <<>> /\ Head(chars) = "_" THEN LStrip(Tail(chars)) ELSE chars

\* op.basename(path)
PathBasename(p) ==
    LET slashes == {i \in 1..Len(p) : p[i] = "/"}
    IN  IF slashes = {} THEN p
        ELSE SubSeq(p, (CHOOSE i \in slashes : \A j \in slashes : j <= i) + 1, Len(p))

\* op.splitext(name)[0]: the name up to its last dot, a dot that only
\* leading dots precede not counting
Splitext(name) ==
    LET dots == {i \in 1..Len(name) :
                    name[i] = "." /\ \E j \in 1..(i - 1) : name[j] # "."}
    IN  IF dots = {} THEN name
        ELSE SubSeq(name, 1, (CHOOSE i \in dots : \A j \in dots : j <= i) - 1)

\* the character classes of (\d{4}_[0-1]\d_[0-3]\d_[0-2]\d_[0-5]\d_[0-5]\d)
DateClasses ==
    <<Digits, Digits, Digits, Digits, {"_"}, {"0", "1"}, Digits, {"_"},
      {"0", "1", "2", "3"}, Digits, {"_"}, {"0", "1", "2"}, Digits, {"_"},
      {"0", "1", "2", "3", "4", "5"}, Digits, {"_"},
      {"0", "1", "2", "3", "4", "5"}, Digits>>

\* the first group matches at position i of fn
DateAt(fn, i) ==
    /\ i + Len(DateClasses) - 1 <= Len(fn)
    /\ \A q \in 1..Len(DateClasses) : fn[i + q - 1] \in DateClasses[q]

\* the end of the longest run of characters of `class` that starts at i
RECURSIVE RunEnd(_, _, _)
RunEnd(fn, i, class) ==
    IF i + 1 <= Len(fn) /\ fn[i + 1] \in class THEN RunEnd(fn, i + 1, class) ELSE i

\* an optional group "_" class+ at position i: whether it matches, and its end
Group(fn, i, class) ==
    IF i + 1 <= Len(fn) /\ fn[i] = "_" /\ fn[i + 1] \in class
    THEN [some |-> TRUE, last |-> RunEnd(fn, i + 1, class)]
    ELSE [some |-> FALSE, last |-> i - 1]

\* TS_IMAGE_DATETIME_RE.search(fn): the leftmost match and its groups
Search(fn) ==
    LET starts == {i \in 1..Len(fn) : DateAt(fn, i)} IN
    IF starts = {} THEN [found |-> FALSE, dt |-> <<>>, subsec |-> NoIndex, index |-> NoIndex]
    ELSE LET i == CHOOSE x \in starts : \A y \in starts : x <= y
             j == i + Len(DateClasses)
             g2 == Group(fn, j, Digits)
             g3 == Group(fn, g2.last + 1, WordChars)
         IN  [found |-> TRUE,
              dt |-> SubSeq(fn, i, j - 1),
              subsec |-> IF g2.some THEN SubSeq(fn, j, g2.last) ELSE NoIndex,
              index |-> IF g3.some THEN SubSeq(fn, g2.last + 1, g3.last) ELSE NoIndex]

LeapYear(y) == y % 4 = 0 /\ (y % 100 # 0 \/ y % 400 = 0)

DaysIn(month, year) ==
    CASE month \in {4, 6, 9, 11} -> 30
      [] month = 2 -> IF LeapYear(year) THEN 29 ELSE 28
      [] OTHER -> 31

\* parse_date(datestr) for a string the pattern matched: iso8601 rejects
\* it, strptime with TS_IMAGE_DATEFMT decides
ParseDate(dt) ==
    LET year == ToInt(SubSeq(dt, 1, 4))
        month == ToInt(SubSeq(dt, 6, 7))
        day == ToInt(SubSeq(dt, 9, 10))
        hour == ToInt(SubSeq(dt, 12, 13))
        minute == ToInt(SubSeq(dt, 15, 16))
        second == ToInt(SubSeq(dt, 18, 19))
    IN  IF /\ year >= 1
           /\ month \in 1..12
           /\ day \in 1..DaysIn(month, year)
           /\ hour <= 23
        THEN [exc |-> "", value |-> <<year, month, day, hour, minute, second>>]
        ELSE [exc |-> "ValueError", value |-> <<>>]

\* the outcome of a call that raises
Failed(exc) == [called |-> TRUE, exc |-> exc, instant |-> NoInstant]

\* TSInstant.__init__(datetime, subsecond, index): int(None) raises
TSInstantInit(datetime, subsecond, index) ==
    IF ~subsecond.some THEN Failed("TypeError")
    ELSE [called |-> TRUE, exc |-> "",
          instant |-> [datetime |-> datetime, subsecond |-> subsecond.v, index |-> index]]

\* TSInstant.from_path(p)
FromPath(p) ==
    LET fn == Splitext(PathBasename(p))
        m == Search(fn)
        date == ParseDate(m.dt)
        subsec == IF m.subsec = NoIndex THEN [some |-> FALSE, v |-> 0]
                  ELSE [some |-> TRUE, v |-> ToInt(LStrip(m.subsec))]
        index == IF m.index = NoIndex THEN NoIndex ELSE LStrip(m.index)
    IN  IF ~m.found THEN Failed("ValueError")
        ELSE IF date.exc # "" THEN Failed(date.exc)
        ELSE TSInstantInit(date.value, subsec, index)

\* the paths from_path is called with: a directory or none, a timestamp
\* (a date, a date no calendar has, or none), a subsecond or none, an index
\* or none, an extension or none
Paths ==
    { dir \o date \o subsec \o index \o ext :
        dir \in {<<>>, <<"d", "/">>},
        date \in { <<"2", "0", "1", "7", "_", "0", "1", "_", "0", "2", "_",
                     "0", "3", "_", "0", "4", "_", "0", "5">>,
                   <<"2", "0", "1", "7", "_", "1", "9", "_", "0", "2", "_",
                     "0", "3", "_", "0", "4", "_", "0", "5">>,
                   <<"x">> },
        subsec \in {<<>>, <<"_", "0", "0">>, <<"_", "7">>, <<"_", "1", "0", "0">>},
        index \in {<<>>, <<"_", "c", "1">>, <<"_", "_", "x">>},
        ext \in {<<>>, <<".", "j", "p", "g">>} }

InstantInit ==
    /\ cmd = "from_path"
    /\ ncpus = 1
    /\ input = <<>>
    /\ opts = {}
    /\ pc = "new"
    /\ err = ""
    /\ steps = <<>>
    /\ n = 0
    /\ report = NewRecorder
    /\ gen = "none"
    /\ pool = "none"
    /\ tasks = <<>>
    /\ k = 0
    /\ yielded = <<>>
    /\ sinkOut = <<>>
    /\ stepOut = <<>>
    /\ stepRec = {}
    /\ finished = <<>>
    /\ disk = NoFile
    /\ echoed = -1
    /\ calls = <<>>
    /\ pathArg \in Paths
    /\ parsed = NotCalled

\* TSInstant.from_path(pathArg) is called
FromPathCall ==
    /\ cmd = "from_path"
    /\ ~parsed.called
    /\ parsed' = FromPath(pathArg)
    /\ UNCHANGED <<cmd, ncpus, input, pc, err, steps, n, report, gen, pool, tasks, k,
                   yielded, sinkOut, stepOut, stepRec, finished, disk, echoed, opts,
                   calls, pathArg>>

InstantNext == FromPathCall

InstantSpec == InstantInit /\ [][InstantNext]_vars

-----------------------------------------------------------------------------
(* Notions the properties are stated with *)

\* the steps of a chain as paths, nested steps after the pipeline that owns them
RECURSIVE StepPaths(_, _, _)
StepPaths(chain, path, i) ==
    IF i > Len(chain) THEN <<>>
    ELSE <<Append(path, i)>> \o StepPaths(chain[i].sub, Append(path, i), 1)
            \o StepPaths(chain, path, i + 1)

\* the recorder after record has been called for each of the frames in turn
RECURSIVE RecordAll(_, _)
RecordAll(rec, frames) ==
    IF frames = <<>> THEN rec
    ELSE RecordAll(Record(rec, Head(frames).instant, Head(frames).report), Tail(frames))

\* the input frames on which some step raises
FailingFrames == {i \in 1..Len(input) : ProcessFile(steps, input[i]).failed}

HasErrors(file) == ~IsNone(file) /\ HasKey(file.report, "Errors")

Keys(d) == {d[i][1] : i \in 1..Len(d)}

InFlight == {i \in 1..Len(tasks) : tasks[i].st = "running"}

-----------------------------------------------------------------------------
(* C1: process yields exactly one result per input frame, the i-th yielded *)
(* frame being the result of the i-th input frame, for every step chain    *)
(* and worker count.                                                       *)
C1_OneResultPerFrameInOrder ==
    /\ \A i \in 1..Len(yielded) : yielded[i].filename = input[i].filename
    /\ gen = "done" => Len(yielded) = Len(input)

(* C2: when a step raises on some frame, process raises nothing to its     *)
(* caller, yields all N frames, and the frames on which a step raised are  *)
(* the only ones whose report holds Errors.                                *)
C2_FailureNeverAbortsBatch ==
    (gen # "none" /\ FailingFrames # {}) =>
        /\ gen \notin {"raising", "raised"}
        /\ \A i \in 1..Len(yielded) :
                HasErrors(yielded[i]) <=> yielded[i].filename \in FailingFrames
        /\ gen = "done" => Len(yielded) = Len(input)

(* C3: process_file never re-raises: when a step raises, the steps before  *)
(* it have been applied, none after it is, and the frame is returned with  *)
(* Errors in its report; when no step raises every step is applied and no  *)
(* Errors field is added.                                                  *)
C3_ProcessFileContainsFailure ==
    \A i \in 1..Len(tasks) :
        tasks[i].st = "done" =>
            /\ tasks[i].exc = ""
            /\ tasks[i].caught =>
                    /\ tasks[i].pos <= Len(steps)
                    /\ HasErrors(tasks[i].file)
            /\ ~tasks[i].failed =>
                    /\ tasks[i].pos = Len(steps) + 1
                    /\ ~HasErrors(tasks[i].file)

(* C4: whenever the caller holds control, n is the number of frames        *)
(* yielded so far and the aggregator holds a record for the instant of     *)
(* every yielded frame and for no other.                                   *)
C4_ReportCoversYieldedPrefix ==
    gen \in {"yielded", "done"} =>
        /\ n = Len(yielded)
        /\ Keys(report.data) = {Repr(yielded[i].instant) : i \in 1..Len(yielded)}

(* C5: no worker ever executes record on a ResultRecorder, so two record   *)
(* calls on one recorder never overlap.                                    *)
C5_OnlyTheDriverRecords ==
    /\ \A i \in 1..Len(tasks) : ~tasks[i].inrec
    /\ \A i, j \in 1..Len(tasks) :
            (i # j /\ tasks[i].inrec /\ tasks[j].inrec /\ SharedMemory)
                => tasks[i].pos # tasks[j].pos

(* C6: in a run of audit, downsize or ingest, finish() of every step is    *)
(* called exactly once, after all frames are drained, never while frames   *)
(* are in flight.                                                          *)
C6_FinishOncePerBatchRun ==
    cmd \in Commands =>
        /\ finished # <<>> => InFlight = {}
        /\ pc = "exit" => finished = StepPaths(steps, <<>>, 1)

(* C7: TSPipeline.finish calls finish() on every step of the pipeline in   *)
(* declaration order, nested pipelines forwarding to their steps, for      *)
(* every step list the constructor and add_step can build.                 *)
C7_FinishReachesEveryStep ==
    (cmd \in Library /\ pc = "exit") => finished = StepPaths(steps, <<>>, 1)

(* C8: the pipeline never holds a step that lacks process_file or finish:  *)
(* the constructor and add_step refuse it.                                 *)
C8_StepsSatisfyContract ==
    \A i \in 1..Len(steps) : HasProcessFile(steps[i]) /\ HasFinish(steps[i])


(* C9: the executor of a process call is created by the call and shut    *)
(* down on every way out of it.  Before the first next() there is no      *)
(* pool; while the call is suspended or draining the pool is up; on the   *)
(* way out (an exception raised while draining, the consumer stopping     *)
(* before the end) the pool is shutting down and no future is left to     *)
(* start; once the call is over (results exhausted, exception delivered,  *)
(* generator closed) the pool is down with no worker running.             *)
C9_PoolReleasedOnEveryExit ==
    LET Queued == {i \in 1..Len(tasks) : tasks[i].st = "queued"} IN
    /\ gen \in {"none", "created"} => pool = "none"
    /\ gen \in {"pulling", "yielded"} => pool = "up"
    /\ gen \in {"raising", "closing"} => pool = "closing" /\ Queued = {}
    /\ gen \in {"done", "raised", "closed"} =>
            pool = "down" /\ Queued = {} /\ InFlight = {}

\* the consumer stopped early: the generator was closed with a frame still
\* queued, and the pool is down
C9_Witness ==
    /\ gen = "closed"
    /\ pool = "down"
    /\ \E i \in 1..Len(tasks) : tasks[i].st = "cancelled"

\* process on its own, consumed to the end: the frames it yields, the
\* counter and the recorder it ends with, from the i-th result on
RECURSIVE ProcessAlone(_, _)
ProcessAlone(i, acc) ==
    IF i > Len(input) THEN acc
    ELSE LET res == ProcessFile(steps, input[i]) IN
         IF res.exc # "" THEN [acc EXCEPT !.raised = TRUE]
         ELSE IF IsNone(res.file) THEN ProcessAlone(i + 1, acc)
         ELSE ProcessAlone(i + 1,
                [acc EXCEPT !.yielded = Append(@, res.file),
                            !.n = @ + 1,
                            !.report = Record(@, res.file.instant, res.file.report)])

IsPrefix(p, q) == Len(p) <= Len(q) /\ \A i \in 1..Len(p) : p[i] = q[i]

(* C10: process_to is process followed by sink.write: the frames written   *)
(* are the frames yielded, once each and in order; a frame is written      *)
(* after it is recorded and counted and before the next one is asked for;  *)
(* the frames, the counter and the recorder end as with process alone.     *)
C10_ProcessToIsProcessThenWrite ==
    cmd \in {"process_to", "downsize"} =>
        LET alone == ProcessAlone(1, [yielded |-> <<>>, n |-> 0,
                                      report |-> NewRecorder, raised |-> FALSE])
        IN  /\ IsPrefix(sinkOut, yielded)
            /\ Len(yielded) <= Len(sinkOut) + 1
            /\ gen \notin {"none", "created", "yielded", "closing", "closed"}
                    => sinkOut = yielded
            /\ n = Len(yielded)
            /\ report = RecordAll(NewRecorder, yielded)
            /\ gen \in {"done", "raised"} =>
                    /\ yielded = alone.yielded
                    /\ n = alone.n
                    /\ report = alone.report
                    /\ alone.raised <=> gen = "raised"

\* a run of process_to through a process pool that wrote two frames, one
\* of them with Errors, and ended
C10_Witness ==
    /\ cmd = "process_to"
    /\ ncpus > 1
    /\ gen = "done"
    /\ Len(sinkOut) = 2
    /\ \E i \in 1..2 : HasErrors(sinkOut[i])

-----------------------------------------------------------------------------
\* the instant strings of the rows of a report file
DiskKeys(file) == {file[i][1] : i \in 2..Len(file)}

(* C11: every run of audit, downsize or ingest, however it ends, reports   *)
(* the final count of processed frames and leaves on disk a report that    *)
(* holds every record accumulated in the pipeline's recorder.              *)
C11_FinalCountAndReportOnDisk ==
    (cmd \in Commands /\ pc = "exit") =>
        /\ echoed = n
        /\ Keys(report.data) \subseteq DiskKeys(disk)

-----------------------------------------------------------------------------
(* Notions for a recorder used on its own *)

IsRecord(c) == c.op = "record"

\* the record calls made so far, in order
Recorded == SelectSeq(calls, IsRecord)

\* the instant strings record was called with
RecordedKeys == {Repr(Recorded[i].instant) : i \in 1..Len(Recorded)}

\* the record calls for `key` that supplied `field`
Supplied(key, field) ==
    {i \in 1..Len(Recorded) :
        Repr(Recorded[i].instant) = key /\ HasKey(Recorded[i].report, field)}

\* the field names supplied for `key` by some call
SuppliedFields(key) ==
    UNION {Keys(Recorded[i].report) :
            i \in {j \in 1..Len(Recorded) : Repr(Recorded[j].instant) = key}}

Max(S) == CHOOSE x \in S : \A y \in S : y <= x

(* C12: record is an upsert keyed by the instant's string: after any      *)
(* sequence of record calls the table holds exactly one record for each    *)
(* instant string recorded, also when a call supplied no fields, and in    *)
(* that record each field holds the value of the latest call that          *)
(* supplied it for that instant.                                           *)
C12_RecordIsUpsert ==
    cmd = "recorder" =>
        /\ Keys(report.data) = RecordedKeys
        /\ Len(report.data) = Cardinality(RecordedKeys)
        /\ \A i \in 1..Len(report.data) :
            LET key == report.data[i][1]
                record == report.data[i][2]
            IN  /\ Keys(record) = SuppliedFields(key)
                /\ Len(record) = Cardinality(Keys(record))
                /\ \A f \in Keys(record) :
                    Get(record, f) = Get(Recorded[Max(Supplied(key, f))].report, f)

\* the names of kwargs not yet in `seen`, appended to it in their order
RECURSIVE AddNames(_, _)
AddNames(seen, kwargs) ==
    IF kwargs = <<>> THEN seen
    ELSE AddNames(IF InSeq(Head(kwargs)[1], seen) THEN seen
                  ELSE Append(seen, Head(kwargs)[1]), Tail(kwargs))

\* the field names of a sequence of record calls in the order first seen
RECURSIVE FirstSeen(_, _)
FirstSeen(seen, cs) ==
    IF cs = <<>> THEN seen ELSE FirstSeen(AddNames(seen, Head(cs).report), Tail(cs))

(* C13: after any sequence of record calls the list of known field names   *)
(* holds exactly the names that occur in some record of the table, each    *)
(* once, in the order in which they were first seen.                       *)
C13_FieldsAreFirstSeenUnion ==
    cmd = "recorder" =>
        /\ report.fields = FirstSeen(<<>>, Recorded)
        /\ Range(report.fields) =
                UNION {Keys(report.data[i][2]) : i \in 1..Len(report.data)}
        /\ Len(report.fields) = Cardinality(Range(report.fields))

\* three record calls, the names seen again after the first, Note before Cam
C13_Witness ==
    /\ cmd = "recorder"
    /\ Len(Recorded) = 3
    /\ report.fields = <<"Note", "Cam">>
    /\ Len(report.data) = 2

\* instant a is earlier than instant b
Earlier(a, b) ==
    \/ a.datetime < b.datetime
    \/ a.datetime = b.datetime /\ a.subsecond < b.subsecond

(* C14: save writes one row per record, the rows sorted by the lexical     *)
(* order of the instant string, and this order is chronological: a row     *)
(* never precedes a row with an earlier (datetime, subsecond).             *)
C14_SaveRowsChronological ==
    cmd = "recorder" =>
        \A i, j \in 2..Len(disk) : i < j =>
            /\ StrLess(disk[i][1], disk[j][1])
            /\ \A a, b \in RecInstants :
                (Repr(a) = disk[i][1] /\ Repr(b) = disk[j][1]) => ~Earlier(b, a)

\* the step just taken is a call of save
SaveJustCalled ==
    /\ cmd = "recorder"
    /\ Len(calls') = Len(calls) + 1
    /\ calls'[Len(calls')].op = "save"

(* C15: save on a recorder with no records writes nothing: the file at the *)
(* target path is neither created nor changed, at every such call, and the *)
(* recorder is left as it was; with one record or more the file is         *)
(* replaced by a snapshot of the current table: the header and one row per *)
(* record, nothing else.                                                   *)
C15_SaveOnEmptyWritesNothing ==
    [][SaveJustCalled =>
        /\ report' = report
        /\ Len(report.data) = 0 => disk' = disk
        /\ Len(report.data) > 0 =>
            /\ Len(disk') = Len(report.data) + 1
            /\ disk'[1] = <<"Instant">> \o report.fields
            /\ DiskKeys(disk') = Keys(report.data)]_vars

\* save was called twice on a recorder with no records, a file being at
\* the target path: the file is as it was
C15_Witness ==
    /\ cmd = "recorder"
    /\ Len(calls) = 3
    /\ calls[1].op = "save"
    /\ calls[3].op = "save"
    /\ report.data = <<>>
    /\ disk = OldFile

\* no tab, no newline, no two whitespace characters in a row
Collapsed(chars) ==
    \A p \in 1..Len(chars) :
        /\ chars[p] \notin {"\t", "\n"}
        /\ p < Len(chars) => ~(IsSpace(chars[p]) /\ IsSpace(chars[p + 1]))

(* C17: in the file save writes, every string value has all its runs of    *)
(* whitespace collapsed to one space, however many runs it has: no written *)
(* string value holds a tab, a newline or two adjacent whitespace          *)
(* characters.                                                             *)
C17_WhitespaceCollapsed ==
    cmd = "recorder" =>
        \A i \in 2..Len(disk) : \A j \in 2..Len(disk[i]) :
            disk[i][j].type = "str" => Collapsed(disk[i][j].v)

(* C16: from_path returns an instant for every file name that holds the    *)
(* timestamp pattern, with or without subsecond, with or without index: an *)
(* absent subsecond gives subsecond 0, an absent index gives no index, a   *)
(* present index comes without its leading separator; it fails only when   *)
(* the pattern occurs nowhere in the file name.                            *)
C16_FromPathAcceptsEveryTimestamp ==
    (cmd = "from_path" /\ parsed.called) =>
        LET m == Search(Splitext(PathBasename(pathArg))) IN
        IF ~m.found THEN parsed.exc = "ValueError"
        ELSE /\ parsed.exc = ""
             /\ parsed.instant.subsecond =
                    IF m.subsec = NoIndex THEN 0 ELSE ToInt(Tail(m.subsec))
             /\ m.index = NoIndex => parsed.instant.index = NoIndex
             /\ m.index # NoIndex =>
                    /\ parsed.instant.index # NoIndex
                    /\ Head(parsed.instant.index) # "_"
                    /\ \E q \in 2..Len(m.index) :
                        parsed.instant.index = SubSeq(m.index, q, Len(m.index))

-----------------------------------------------------------------------------
(* C18: when a step of a pipeline nested as a step raises on a frame,      *)
(* processing of that frame stops there: no later step of the inner        *)
(* pipeline and no later step of the outer pipeline is applied to it, and  *)
(* the frame comes back with Errors in its report.                         *)
C18_NestedFailureStopsTheFrame ==
    \A j \in 1..Len(yielded) :
        LET frame == input[yielded[j].filename]
            made == Applied(steps, <<>>, 1, frame)
        IN  \A a \in 1..Len(made) :
                (made[a].raised /\ Len(made[a].path) >= 2) =>
                    /\ a = Len(made)
                    /\ HasErrors(yielded[j])

\* the step classes base.py defines; "Copy" is PipelineStep and CopyStep
BaseKinds == {"Copy", "WriteFile", "FileStats", "Recorder", "Pipe"}

(* C19: process_file of every step class of base.py returns a frame, never *)
(* None: a call that returns hands a frame to the next step, a worker's    *)
(* result is a frame, and a chain of these steps yields one recorded and   *)
(* counted frame per input.                                                *)
C19_ProcessFileReturnsAFrame ==
    /\ \A p \in 1..Len(steps) : \A i \in 1..Len(tasks) :
            (steps[p].kind \in BaseKinds /\ tasks[i].st = "done") =>
                LET r == ApplyStep(steps[p], <<p>>, input[i])
                IN  r.exc = "" => ~IsNone(r.file)
    /\ \A i \in 1..Len(tasks) :
            (tasks[i].st = "done" /\ tasks[i].exc = "") => ~IsNone(tasks[i].file)
    /\ (gen = "done" /\ \A p \in 1..Len(steps) : steps[p].kind \in BaseKinds) =>
            n = Len(input) /\ Len(yielded) = Len(input)

(* C20: the outcome of process does not depend on the order in which the   *)
(* workers start and complete frames: whenever a run has handed a frame to *)
(* its caller or is over, whatever the workers did in between, the         *)
(* frames yielded, the counter and the recorder (its records, the value    *)
(* that wins when two frames share an instant string, the order of its     *)
(* fields) are those of the frames taken one after the other in input      *)
(* order, so any two runs on the same input and steps end alike.           *)
C20_OutcomeIndependentOfScheduling ==
    gen \notin {"none", "created", "pulling"} =>
        LET inOrder == ProcessAlone(1, [yielded |-> <<>>, n |-> 0,
                                        report |-> NewRecorder, raised |-> FALSE])
        IN  /\ IsPrefix(yielded, inOrder.yielded)
            /\ n = Len(yielded)
            /\ report = RecordAll(NewRecorder, yielded)
            /\ gen \in {"done", "raised"} =>
                    /\ yielded = inOrder.yielded
                    /\ n = inOrder.n
                    /\ report.data = inOrder.report.data
                    /\ report.fields = inOrder.report.fields
                    /\ inOrder.raised <=> gen = "raised"

\* a run through the thread pool in which the worker of the second frame
\* wrote before the worker of the first, the two frames sharing an instant
\* with different reports: both are yielded, in input order
C20_Witness ==
    /\ cmd = "process"
    /\ ncpus = 1
    /\ gen = "done"
    /\ Len(yielded) = 2
    /\ yielded[1].filename = 1
    /\ yielded[1].instant = yielded[2].instant
    /\ yielded[1].report # yielded[2].report
    /\ Len(stepOut) = 2
    /\ stepOut[1].filename = 2

=============================================================================
